---- MODULE Spec2Model ----
(***************************************************************************)
(* Inventory-consistency engine of the restaurant ordering application.    *)
(*                                                                         *)
(* The database is the schema of README.md (tables, row level security,   *)
(* functions and triggers); supabase-schema.sql holds the same tables and  *)
(* the same deduction loop.  The pages and the order API are the callers.  *)
(*                                                                         *)
(* Quantities are DECIMAL(10,2) in the schema; the model counts them in    *)
(* whole units, which keeps products and differences exact as the schema  *)
(* does (an INTEGER times a DECIMAL(10,2) has two decimals).               *)
(***************************************************************************)
EXTENDS Integers, Sequences, FiniteSets, TLC

(***************************************************************************)
(* Bounds of the model.                                                    *)
(***************************************************************************)
\* lines of one request
MaxLines == 2
\* largest quantity an admin types for a stock row
MaxQty == 2
\* largest quantity_required of a mapping row
MaxReq == 1
\* the history counter of deduction passes stops counting here
MaxDeductions == 2

\* ids of the rows the model follows in each table
InvIds == {1, 2}
MenuIds == {1, 2}
OrderIds == {1, 2}
\* the browser tabs that hold an AdminOrdersPage
AdminPages == {"tabA", "tabB"}
\* auth.role() of a request
Roles == {"anon", "authenticated"}
\* orders.status CHECK constraint; "none" stands for an id with no row
Statuses == {"pending", "approved", "completed", "declined"}
\* quantities an admin can type into the inventory page, a negative one included
QtyInputs == (0 - 1)..MaxQty
\* quantity_required of a mapping row that exists
ReqInputs == 1..MaxReq
\* the (menu item, stock row) pairs a mapping row can join: stock row 1 is shared
\* by both menu items, menu item 2 has a second ingredient
MappingPairs == {<<1, 1>>, <<2, 1>>, <<2, 2>>}
\* stock stays in this range: a status update that would leave it is not taken
MinStock == 0 - 1
MaxStock == MaxQty + 1
\* item.quantity of a request line: the route stores what the request holds
LineQtys == {0 - 1, 1, 2}
\* preparation_time IS NULL
PrepNull == 0
\* minutes set in the approve dialog (parseInt(...) || 30 is never 0): the
\* dialog's default
PrepTimes == {30}
\* minutes an admin can type into the dialog: Number.parseInt(e.target.value) || 30
\* keeps any integer but 0, a negative one included
PrepInputs == {0 - 5, 30}
\* phone_number IS NULL (the request body has no phone_number)
PhoneNull == "NULL"
\* phone_number of a request body
PhoneInputs == {PhoneNull, "555-0100"}
\* price IS NULL (the request line has no price)
PriceNull == 0
\* menu_items.price, in whole units
Prices == {1, 2}
\* item.price of the lines of a request: none, or a price the menu has shown
PriceInputs == {PriceNull} \cup Prices
\* orders.updated_at, told by what it equals: the time of the row's last change of
\* status (the insert of the row included), or the time of a later write
AtStatusChange == "last status change"
Later == "later write"

VARIABLES
  inv_rows,             \* ids of the rows of inventory_items
  quantity,             \* inventory_items.quantity
  menu_rows,            \* ids of the rows of menu_items
  is_available,         \* menu_items.is_available
  menu_item_inventory,  \* quantity_required per (menu item, inventory item); 0: no row
  price,                \* menu_items.price
  inv_name,             \* inventory_items.name
  orders,               \* orders: status ("none": no row), preparation_time,
                        \* phone_number and updated_at
  order_items,          \* order_items of each order, in insertion order
  adminOrders,          \* AdminOrdersPage state `orders`: the status each tab shows
  countdown,            \* OrderStatusPage: the page's `order` is approved with a
                        \* preparation_time (what its countdown effect reads of it)
  ingredients,          \* AdminMenuPage state `ingredients`: the recipe map it last read
  tx,                   \* the status update in flight on each order, statement by statement
  stock0,               \* history: the stock before the status updates in flight began
  writers,              \* the completion each writer has in flight on one and the same order
  deductions,           \* history: deduction passes committed per order
  manual,               \* history: is_available last written by AdminMenuPage
  lastOp                \* history: the last operation that sent a write

vars == <<inv_rows, quantity, menu_rows, is_available, menu_item_inventory, price, inv_name, orders,
          order_items, adminOrders, countdown, ingredients, tx, stock0, writers,
          deductions, manual, lastOp>>

\* the five tables, and the state of the pages
catalogue == <<inv_rows, quantity, menu_rows, is_available, menu_item_inventory>>
orderTables == <<orders, order_items>>
pages == <<adminOrders, countdown, ingredients>>
inFlight == <<tx, stock0, writers>>

Max(a, b) == IF a >= b THEN a ELSE b
Min(a, b) == IF a <= b THEN a ELSE b

(***************************************************************************)
(* Availability evaluator and its bulk write-back.                         *)
(***************************************************************************)
\* EXISTS (SELECT 1 FROM menu_item_inventory WHERE menu_item_id = m)
HasMapping(mii, m) == \E i \in InvIds : mii[m][i] > 0

\* (variant: current_quantity IS NULL is not tested, and NULL < quantity_required
\* is not true: a mapping row with no stock row passes)
check_menu_item_availability_NullPasses(rows, qty, mii, m) ==
  \A i \in InvIds :
     (mii[m][i] > 0 /\ i \in rows) => qty[i] >= mii[m][i]

\* (variant: the comparison is strict, stock equal to quantity_required fails)
check_menu_item_availability_Strict(rows, qty, mii, m) ==
  \A i \in InvIds :
     mii[m][i] > 0 => (i \in rows /\ qty[i] > mii[m][i])

\* check_menu_item_availability(m): every mapping row has a stock row holding at
\* least quantity_required; a missing stock row (current_quantity IS NULL) fails
check_menu_item_availability(rows, qty, mii, m) ==
  \A i \in InvIds :
     mii[m][i] > 0 => (i \in rows /\ qty[i] >= mii[m][i])

\* (variant: the bulk write-back writes nothing)
update_menu_item_availability_Skipped(mrows, avail, rows, qty, mii) == avail

\* update_menu_item_availability(): for every menu item that has a mapping row,
\* is_available := check_menu_item_availability; the others are left alone
update_menu_item_availability(mrows, avail, rows, qty, mii) ==
  [m \in MenuIds |->
     IF m \in mrows /\ HasMapping(mii, m)
       THEN check_menu_item_availability(rows, qty, mii, m)
       ELSE avail[m]]

(***************************************************************************)
(* Writes to inventory_items, with the row triggers they fire.  A database *)
(* view db is [qty, avail, clamped]: the quantities and is_available flags *)
(* a statement sees and writes, and (history) the stock rows the second    *)
(* statement of the deduction loop has set to 0.                           *)
(***************************************************************************)
\* (variant: the table has no AFTER UPDATE trigger)
UpdateQuantity_NoTrigger(db, mrows, rows, mii, i, q) ==
  IF i \notin rows THEN db ELSE [db EXCEPT !.qty = [db.qty EXCEPT ![i] = q]]

\* UPDATE inventory_items SET quantity = q WHERE id = i, followed by
\* trigger_update_menu_availability_on_inventory_change (AFTER UPDATE, WHEN
\* OLD.quantity IS DISTINCT FROM NEW.quantity)
UpdateQuantity(db, mrows, rows, mii, i, q) ==
  IF i \notin rows \/ q = db.qty[i]
    THEN db
    ELSE LET qty2 == [db.qty EXCEPT ![i] = q]
         IN  [db EXCEPT !.qty = qty2,
                        !.avail = update_menu_item_availability(mrows, db.avail, rows,
                                                                qty2, mii)]

\* the body of the inner loop of deduct_inventory_on_order_completion for one
\* order item and one mapping row: the decrement, then the clamp of that row
DeductOne(db, mrows, rows, mii, line, i) ==
  LET d   == line.quantity * mii[line.menu_item_id][i]
      db1 == UpdateQuantity(db, mrows, rows, mii, i, db.qty[i] - d)
  IN  IF i \in rows /\ db1.qty[i] < 0
        THEN [UpdateQuantity(db1, mrows, rows, mii, i, 0)
                EXCEPT !.clamped = @ \cup {i}]
        ELSE db1

\* FOR menu_inv IN SELECT * FROM menu_item_inventory WHERE menu_item_id = ...
\* (the model follows one mapping row per pair, so the rows of one menu item name
\* distinct stock rows and the order the loop takes them in does not show)
RECURSIVE DeductLine(_, _, _, _, _, _)
DeductLine(db, mrows, rows, mii, line, todo) ==
  IF todo = {} THEN db
  ELSE LET i == CHOOSE x \in todo : \A y \in todo : x <= y
       IN  DeductLine(DeductOne(db, mrows, rows, mii, line, i),
                      mrows, rows, mii, line, todo \ {i})

\* the mapping rows of a menu item, by the stock row each names
MappingRows(mii, m) == {i \in InvIds : mii[m][i] > 0}

\* FOR order_item IN SELECT * FROM order_items WHERE order_id = NEW.id, taken in
\* insertion order
RECURSIVE DeductLines(_, _, _, _, _)
DeductLines(db, mrows, rows, mii, lines) ==
  IF lines = <<>> THEN db
  ELSE DeductLines(DeductLine(db, mrows, rows, mii, Head(lines),
                              MappingRows(mii, Head(lines).menu_item_id)),
                   mrows, rows, mii, Tail(lines))

\* (variant: the guard does not look at OLD.status)
DeductionFires_AnyOldStatus(oldStatus, newStatus) == newStatus = "completed"

\* the guard of the trigger function: status changes to 'completed'
DeductionFires(oldStatus, newStatus) ==
  newStatus = "completed" /\ oldStatus # "completed"

\* deduct_inventory_on_order_completion (BEFORE UPDATE ON orders, FOR EACH ROW):
\* the loops, then PERFORM update_menu_item_availability()
deduct_inventory_on_order_completion(db, mrows, rows, mii, lines, oldStatus, newStatus) ==
  IF DeductionFires(oldStatus, newStatus)
    THEN LET db2 == DeductLines(db, mrows, rows, mii, lines)
         IN  [db2 EXCEPT !.avail = update_menu_item_availability(mrows, db2.avail, rows,
                                                                 db2.qty, mii)]
    ELSE db

InRange(qty) == \A i \in InvIds : qty[i] >= MinStock /\ qty[i] <= MaxStock

(***************************************************************************)
(* History variables.                                                      *)
(***************************************************************************)
\* op: the handler; order, old, new: the order it wrote and its status before and
\* after; wrote: whether its statement reached a row; clamped: the stock rows its
\* deduction pass set to 0
\* failed: the error the handler returned ("none": it returned none); line, item:
\* the place and the content of the request line the error is about (0, NoLine:
\* none)
\* size, phone: of the body of a request to the order API, the number of its
\* items and its phone_number (0, PhoneNull: the operation is no such request)
\* role: auth.role() of the caller (the admin pages need a signed-in user; the
\* order API is called by the customer's browser, which has no session)
NoLine == [menu_item_id |-> 0, quantity |-> 0]
Op(name, o, old, new, wrote, clamped) ==
  [op |-> name, order |-> o, old |-> old, new |-> new, wrote |-> wrote,
   clamped |-> clamped, failed |-> "none", line |-> 0, item |-> NoLine,
   size |-> 0, phone |-> PhoneNull,
   role |-> IF name = "POST" THEN "anon" ELSE "authenticated"]
NoOrderOp(name, wrote) == Op(name, 0, "none", "none", wrote, {})

\* is_available of every menu item with a mapping row was just written by
\* update_menu_item_availability: no admin edit of the flag stands any more
Recomputed(mrows, mii, man) ==
  [m \in MenuIds |-> IF m \in mrows /\ HasMapping(mii, m) THEN FALSE ELSE man[m]]

(***************************************************************************)
(* UPDATE orders SET status = newStatus [, preparation_time = prep]         *)
(* WHERE id = o, as one committed transaction.                             *)
(***************************************************************************)
\* an id with no row in orders
NoOrder == [status |-> "none", preparation_time |-> PrepNull, phone_number |-> PhoneNull,
            updated_at |-> AtStatusChange]

\* row level security: only "Admins have full access to orders" (auth.role() =
\* 'authenticated') lets a request see a row FOR UPDATE; for any other role the
\* statement matches no row and reports no error
CanUpdateOrders(role) == role = "authenticated"

\* update_updated_at_column (update_orders_updated_at, BEFORE UPDATE ON orders FOR
\* EACH ROW): NEW.updated_at = NOW() in every update of the row, whether the
\* update changes the status (NOW() is then the time of the status change) or not
update_updated_at_column(oldStatus, newStatus) ==
  IF newStatus # oldStatus THEN AtStatusChange ELSE Later

\* the row an update leaves: the columns of the SET list, and updated_at
NewOrderRow(row, newStatus, prep) ==
  [row EXCEPT !.status = newStatus,
              !.preparation_time = IF prep # PrepNull THEN prep ELSE @,
              !.updated_at = update_updated_at_column(row.status, newStatus)]

\* the database as a statement of a new transaction sees it
Committed == [qty |-> quantity, avail |-> is_available, clamped |-> {}]

\* the row trigger of the update, run on the committed database
Deducted(o, newStatus) ==
  deduct_inventory_on_order_completion(Committed, menu_rows, inv_rows,
                                       menu_item_inventory, order_items[o],
                                       orders[o].status, newStatus)

UpdateOrders(role, o, newStatus, prep) ==
  IF CanUpdateOrders(role) /\ orders[o].status # "none"
    THEN LET old == orders[o].status
             db2 == Deducted(o, newStatus)
         IN  /\ InRange(db2.qty)
             /\ quantity' = db2.qty
             /\ is_available' = db2.avail
             /\ orders' = [orders EXCEPT ![o] = NewOrderRow(@, newStatus, prep)]
             /\ deductions' = IF DeductionFires(old, newStatus)
                                THEN [deductions EXCEPT ![o] = Min(@ + 1, MaxDeductions)]
                                ELSE deductions
             /\ manual' = IF DeductionFires(old, newStatus)
                            THEN Recomputed(menu_rows, menu_item_inventory, manual)
                            ELSE manual
    ELSE UNCHANGED <<quantity, is_available, orders, deductions, manual>>

(***************************************************************************)
(* AdminOrdersPage.                                                        *)
(***************************************************************************)
\* fetchOrders: the tab's `orders` state becomes what the table holds
fetchOrders(p) ==
  /\ adminOrders' = [adminOrders EXCEPT ![p] = [o \in OrderIds |-> orders[o].status]]
  /\ UNCHANGED <<catalogue, orderTables, countdown, ingredients, inFlight, price, inv_name, deductions, manual,
                 lastOp>>

\* updateOrderStatus(orderId, newStatus, prepTimeMinutes): the update, then the
\* tab's own copy of the order takes the new status
updateOrderStatus(p, o, newStatus, prep) ==
  /\ UpdateOrders("authenticated", o, newStatus,
                  IF newStatus = "approved" THEN prep ELSE PrepNull)
  /\ adminOrders' = [adminOrders EXCEPT ![p][o] = newStatus]
  /\ lastOp' = Op("updateOrderStatus", o, orders[o].status, newStatus, TRUE,
                 Deducted(o, newStatus).clamped)
  /\ UNCHANGED <<inv_rows, menu_rows, menu_item_inventory, order_items, countdown,
                 ingredients, inFlight, price, inv_name>>

\* the Approve button and its dialog are rendered for an order the tab shows as pending
Approve(p, o, prep) ==
  /\ adminOrders[p][o] = "pending"
  /\ updateOrderStatus(p, o, "approved", prep)

\* the Decline button is rendered for an order the tab shows as pending
Decline(p, o) ==
  /\ adminOrders[p][o] = "pending"
  /\ updateOrderStatus(p, o, "declined", PrepNull)

\* the Mark as Completed button is rendered for an order the tab shows as approved
MarkCompleted(p, o) ==
  /\ adminOrders[p][o] = "approved"
  /\ updateOrderStatus(p, o, "completed", PrepNull)

(***************************************************************************)
(* OrderStatusPage.                                                        *)
(***************************************************************************)
\* the guard of the countdown effect: order.status === 'approved' &&
\* order.preparation_time
CountdownRuns(row) == row.status = "approved" /\ row.preparation_time # PrepNull

\* fetchOrder: the page's `order` state becomes the row
fetchOrder(o) ==
  /\ orders[o].status # "none"
  /\ countdown' = [countdown EXCEPT ![o] = CountdownRuns(orders[o])]
  /\ UNCHANGED <<catalogue, orderTables, adminOrders, ingredients, inFlight, price, inv_name, deductions, manual,
                 lastOp>>

\* calculateCountdown when the ready time has passed (diff <= 0): the page, which
\* shows the order as approved with a preparation time, writes completed with the
\* role of its browser session and fetches the order again
calculateCountdown(o, role) ==
  /\ countdown[o]
  /\ UpdateOrders(role, o, "completed", PrepNull)
  /\ countdown' = [countdown EXCEPT ![o] = CountdownRuns(orders'[o])]
  /\ lastOp' = [Op("calculateCountdown", o, orders[o].status, orders'[o].status,
                    CanUpdateOrders(role),
                    IF CanUpdateOrders(role) THEN Deducted(o, "completed").clamped ELSE {})
                   EXCEPT !.role = role]
  /\ UNCHANGED <<inv_rows, menu_rows, menu_item_inventory, order_items, adminOrders,
                 ingredients, inFlight, price, inv_name>>

(***************************************************************************)
(* POST /api/orders.                                                       *)
(***************************************************************************)
Lines == [menu_item_id : MenuIds, quantity : LineQtys]
Requests == UNION {[1..n -> Lines] : n \in 1..MaxLines}
\* the items of a request body, an empty list included
Carts == Requests \cup {<<>>}

\* getSupabaseServer(): the client the route sends its statements with.
\* lib/supabase/server is not among the sources; the validation gate of the
\* specification reads the recipe map and the inventory store, so the client has
\* a role that sees their rows
getSupabaseServer == "service_role"

\* row level security of menu_item_inventory and inventory_items: the only policy
\* is FOR ALL USING (auth.role() = 'authenticated'); the service role bypasses row
\* level security; any other role reads no row and gets no error
CanReadStock(role) == role \in {"authenticated", "service_role"}

\* (variant: the stock must exceed what the line needs)
ValidLine_Strict(mrows, avail, rows, qty, mii, line) ==
  /\ line.menu_item_id \in mrows
  /\ avail[line.menu_item_id]
  /\ \A i \in InvIds :
        (CanReadStock(getSupabaseServer) /\ mii[line.menu_item_id][i] > 0) =>
          /\ i \in rows
          /\ qty[i] > mii[line.menu_item_id][i] * line.quantity

\* (variant: the stock is compared with quantity_required, not multiplied by
\* item.quantity)
ValidLine_Unscaled(mrows, avail, rows, qty, mii, line) ==
  /\ line.menu_item_id \in mrows
  /\ avail[line.menu_item_id]
  /\ \A i \in InvIds :
        (CanReadStock(getSupabaseServer) /\ mii[line.menu_item_id][i] > 0) =>
          /\ i \in rows
          /\ ~(qty[i] < mii[line.menu_item_id][i])

\* the checks of one request line: the menu item exists and is available, and
\* every mapping row the client reads has a stock row with
\* quantity >= quantity_required * item.quantity
ValidLine(mrows, avail, rows, qty, mii, line) ==
  /\ line.menu_item_id \in mrows
  /\ avail[line.menu_item_id]
  /\ \A i \in InvIds :
        (CanReadStock(getSupabaseServer) /\ mii[line.menu_item_id][i] > 0) =>
          /\ i \in rows
          /\ ~(qty[i] < mii[line.menu_item_id][i] * line.quantity)

\* the error response of the first check a line fails, in the order the route
\* makes the checks (a mapping row always has its stock row, by the foreign key,
\* so the check of a mapping row fails on the quantity)
LineError(mrows, avail, rows, qty, mii, line) ==
  IF line.menu_item_id \notin mrows THEN "not found"
  ELSE IF ~avail[line.menu_item_id] THEN "unavailable"
  ELSE IF ~ValidLine(mrows, avail, rows, qty, mii, line) THEN "Insufficient inventory"
  ELSE "none"

\* the loop over the lines, on the tables as the request finds them
ValidRequest(items) ==
  \A k \in 1..Len(items) :
     ValidLine(menu_rows, is_available, inv_rows, quantity, menu_item_inventory, items[k])

\* the first line that fails a check: the loop returns there
FirstInvalid(items) ==
  CHOOSE k \in 1..Len(items) :
     /\ ~ValidLine(menu_rows, is_available, inv_rows, quantity, menu_item_inventory,
                   items[k])
     /\ \A j \in 1..(k - 1) :
           ValidLine(menu_rows, is_available, inv_rows, quantity, menu_item_inventory,
                     items[j])

\* what POST returns and records when a line fails a check
Rejected(o, items, phone) ==
  /\ UNCHANGED <<orders, order_items>>
  /\ lastOp' = [NoOrderOp("POST", FALSE) EXCEPT
                  !.size = Len(items), !.phone = phone,
                  !.failed = LineError(menu_rows, is_available, inv_rows, quantity,
                                       menu_item_inventory, items[FirstInvalid(items)]),
                  !.line = FirstInvalid(items),
                  !.item = items[FirstInvalid(items)]]

\* the row INSERT INTO orders stores: status pending, the phone_number of the
\* body as it is (the column is nullable), updated_at at its default NOW()
InsertedOrder(phone) == [NoOrder EXCEPT !.status = "pending", !.phone_number = phone]

\* items.map(...): the order items the second statement inserts, each with the
\* price its request line carries (p: the price the lines of this request carry)
OrderItemRows(items, p) ==
  [k \in 1..Len(items) |->
     [menu_item_id |-> items[k].menu_item_id, quantity |-> items[k].quantity,
      price |-> p]]

\* !items || items.length === 0: the only check the route makes on the body
CartIsEmpty(items) == items = <<>>

\* (variant: the order row is inserted before the lines are checked)
POST_InsertFirst(o, items, p, phone) ==
  /\ orders[o].status = "none"
  /\ ~CartIsEmpty(items)
  /\ orders' = [orders EXCEPT ![o] = InsertedOrder(phone)]
  /\ IF ValidRequest(items)
       THEN /\ order_items' = [order_items EXCEPT ![o] = OrderItemRows(items, p)]
            /\ lastOp' = [Op("POST", o, "none", "pending", TRUE, {}) EXCEPT
                            !.size = Len(items), !.phone = phone]
       ELSE /\ UNCHANGED order_items
            /\ lastOp' = [NoOrderOp("POST", TRUE) EXCEPT
                            !.size = Len(items), !.phone = phone,
                            !.failed = LineError(menu_rows, is_available, inv_rows,
                                                 quantity, menu_item_inventory,
                                                 items[FirstInvalid(items)]),
                            !.line = FirstInvalid(items),
                            !.item = items[FirstInvalid(items)]]
  /\ UNCHANGED <<catalogue, pages, inFlight, price, inv_name, deductions, manual>>

\* (variant: an accepted order takes its stock when it is placed)
POST_Reserves(o, items, p, phone) ==
  /\ orders[o].status = "none"
  /\ ~CartIsEmpty(items)
  /\ IF ValidRequest(items)
       THEN /\ orders' = [orders EXCEPT ![o] = InsertedOrder(phone)]
            /\ order_items' = [order_items EXCEPT ![o] = OrderItemRows(items, p)]
            /\ quantity' = DeductLines(Committed, menu_rows, inv_rows,
                                       menu_item_inventory, items).qty
            /\ lastOp' = [Op("POST", o, "none", "pending", TRUE, {}) EXCEPT
                            !.size = Len(items), !.phone = phone]
       ELSE /\ UNCHANGED quantity
            /\ Rejected(o, items, phone)
  /\ UNCHANGED <<inv_rows, menu_rows, is_available, menu_item_inventory, pages, inFlight,
                 price, inv_name, deductions, manual>>

\* POST: a body with no items returns "Cart is empty"; no other field of the body
\* is checked.  A request with a line that fails a check returns the error and
\* writes nothing.  Otherwise the route inserts the order as pending, and then,
\* in a second statement, all its order items with the price each line carries:
\* when a line carries none the statement fails (order_items.price is NOT NULL),
\* the route returns itemsError and the order row stays
\* (o is the id the insert gives the new order; p: item.price of the lines;
\* phone: phone_number of the body)
POST(o, items, p, phone) ==
  /\ orders[o].status = "none"
  /\ IF CartIsEmpty(items)
       THEN /\ UNCHANGED <<orders, order_items>>
            /\ lastOp' = [NoOrderOp("POST", FALSE) EXCEPT
                            !.failed = "Cart is empty", !.size = 0, !.phone = phone]
       ELSE IF ValidRequest(items)
       THEN /\ orders' = [orders EXCEPT ![o] = InsertedOrder(phone)]
            /\ IF p # PriceNull
                 THEN /\ order_items' = [order_items EXCEPT ![o] = OrderItemRows(items, p)]
                      /\ lastOp' = [Op("POST", o, "none", "pending", TRUE, {}) EXCEPT
                                      !.size = Len(items), !.phone = phone]
                 ELSE /\ UNCHANGED order_items
                      /\ lastOp' = [Op("POST", o, "none", "pending", TRUE, {}) EXCEPT
                                      !.failed = "itemsError", !.size = Len(items),
                                      !.phone = phone]
       ELSE Rejected(o, items, phone)
  /\ UNCHANGED <<catalogue, pages, inFlight, price, inv_name, deductions, manual>>

(***************************************************************************)
(* AdminInventoryPage.                                                     *)
(***************************************************************************)
\* updateItem(id, {quantity}): the number typed into the quantity field is written
\* as it is (Number.parseInt(e.target.value) || 0)
updateInventoryItem(i, q) ==
  /\ i \in inv_rows
  /\ LET db2 == UpdateQuantity(Committed, menu_rows, inv_rows, menu_item_inventory,
                               i, q)
     IN  /\ quantity' = db2.qty
         /\ is_available' = db2.avail
         /\ manual' = IF q # quantity[i]
                        THEN Recomputed(menu_rows, menu_item_inventory, manual)
                        ELSE manual
  /\ lastOp' = NoOrderOp("updateInventoryItem", TRUE)
  /\ UNCHANGED <<inv_rows, menu_rows, menu_item_inventory, orderTables, pages, inFlight, price, inv_name,
                 deductions>>

\* the AFTER ROW triggers on inventory_items and menu_item_inventory, run on the
\* tables as the statement left them: is_available of the mapped menu items
TriggerUpdateMenuAvailability(mrows, rows, qty, mii) ==
  /\ is_available' = update_menu_item_availability(mrows, is_available, rows, qty, mii)
  /\ manual' = Recomputed(mrows, mii, manual)

\* SELECT update_menu_item_availability() sent through the API (rpc) by a caller
\* of any role: the function is SECURITY DEFINER ("allows the function to bypass
\* RLS policies") and no statement revokes the EXECUTE that a new function
\* grants to every role, so its UPDATE of menu_items runs whoever calls it
rpc_update_menu_item_availability(role) ==
  /\ TriggerUpdateMenuAvailability(menu_rows, inv_rows, quantity, menu_item_inventory)
  /\ lastOp' = [NoOrderOp("rpc", TRUE) EXCEPT !.role = role]
  /\ UNCHANGED <<inv_rows, quantity, menu_rows, menu_item_inventory, orderTables, pages,
                 inFlight, price, inv_name, deductions>>

\* addItem: INSERT INTO inventory_items, then
\* trigger_update_menu_availability_on_inventory_insert
addInventoryItem(i, q) ==
  /\ i \notin inv_rows
  /\ inv_rows' = inv_rows \cup {i}
  /\ quantity' = [quantity EXCEPT ![i] = q]
  /\ TriggerUpdateMenuAvailability(menu_rows, inv_rows', quantity', menu_item_inventory)
  /\ lastOp' = NoOrderOp("addInventoryItem", TRUE)
  /\ UNCHANGED <<menu_rows, menu_item_inventory, orderTables, pages, inFlight, price, inv_name, deductions>>

\* deleteItem: DELETE FROM inventory_items; ON DELETE CASCADE removes the mapping
\* rows that name the stock row, and each removed mapping row fires
\* trigger_update_menu_availability_on_mapping_change
deleteInventoryItem(i) ==
  /\ i \in inv_rows
  /\ inv_rows' = inv_rows \ {i}
  /\ quantity' = [quantity EXCEPT ![i] = 0]
  /\ menu_item_inventory' = [m \in MenuIds |-> [menu_item_inventory[m] EXCEPT ![i] = 0]]
  /\ IF menu_item_inventory' # menu_item_inventory
       THEN TriggerUpdateMenuAvailability(menu_rows, inv_rows', quantity',
                                          menu_item_inventory')
       ELSE UNCHANGED <<is_available, manual>>
  /\ lastOp' = NoOrderOp("deleteInventoryItem", TRUE)
  /\ UNCHANGED <<menu_rows, orderTables, pages, inFlight, price, inv_name, deductions>>

(***************************************************************************)
(* menu_item_inventory: the statements an admin runs on the recipe map     *)
(* (README.md loads it with INSERT statements; no page writes it).         *)
(***************************************************************************)
\* INSERT INTO menu_item_inventory (menu_item_id, inventory_item_id, quantity_required)
insertMapping(m, i, r) ==
  /\ <<m, i>> \in MappingPairs
  /\ m \in menu_rows /\ i \in inv_rows
  /\ menu_item_inventory[m][i] = 0
  /\ menu_item_inventory' = [menu_item_inventory EXCEPT ![m][i] = r]
  /\ TriggerUpdateMenuAvailability(menu_rows, inv_rows, quantity, menu_item_inventory')
  /\ lastOp' = NoOrderOp("insertMapping", TRUE)
  /\ UNCHANGED <<inv_rows, quantity, menu_rows, orderTables, pages, inFlight, price, inv_name, deductions>>

\* UPDATE menu_item_inventory SET quantity_required = r (the trigger has no WHEN)
updateMapping(m, i, r) ==
  /\ menu_item_inventory[m][i] > 0
  /\ menu_item_inventory' = [menu_item_inventory EXCEPT ![m][i] = r]
  /\ TriggerUpdateMenuAvailability(menu_rows, inv_rows, quantity, menu_item_inventory')
  /\ lastOp' = NoOrderOp("updateMapping", TRUE)
  /\ UNCHANGED <<inv_rows, quantity, menu_rows, orderTables, pages, inFlight, price, inv_name, deductions>>

\* DELETE FROM menu_item_inventory
deleteMapping(m, i) ==
  /\ menu_item_inventory[m][i] > 0
  /\ menu_item_inventory' = [menu_item_inventory EXCEPT ![m][i] = 0]
  /\ TriggerUpdateMenuAvailability(menu_rows, inv_rows, quantity, menu_item_inventory')
  /\ lastOp' = NoOrderOp("deleteMapping", TRUE)
  /\ UNCHANGED <<inv_rows, quantity, menu_rows, orderTables, pages, inFlight, price, inv_name, deductions>>

(***************************************************************************)
(* AdminMenuPage.                                                          *)
(***************************************************************************)
\* checkAuth (on load and every 5 s): the page's `ingredients` state becomes the
\* recipe map; with no menu item the state is left as it was
checkAuth ==
  /\ menu_rows # {}
  /\ ingredients' = menu_item_inventory
  /\ UNCHANGED <<catalogue, orderTables, adminOrders, countdown, inFlight, price, inv_name, deductions, manual,
                 lastOp>>

\* addItem: INSERT INTO menu_items with the is_available of the form
addMenuItem(m, avail) ==
  /\ m \notin menu_rows
  /\ menu_rows' = menu_rows \cup {m}
  /\ is_available' = [is_available EXCEPT ![m] = avail]
  /\ manual' = [manual EXCEPT ![m] = TRUE]
  /\ lastOp' = NoOrderOp("addMenuItem", TRUE)
  /\ UNCHANGED <<inv_rows, quantity, menu_item_inventory, orderTables, pages, inFlight, price, inv_name,
                 deductions>>

\* .from("inventory_items").select("name, quantity").eq("name", nm).single():
\* the rows of that name; single() gives data only when there is exactly one
RowsNamed(nm) == {r \in inv_rows : inv_name[r] = nm}

\* checkInventoryForItem: for every ingredient the page holds for the item (the
\* page keeps the ingredient's name), the lookup by name gives one stock row and
\* not(quantity < quantity_required)
checkInventoryForItem(m) ==
  \A i \in InvIds :
     ingredients[m][i] > 0 =>
        /\ Cardinality(RowsNamed(inv_name[i])) = 1
        /\ \A r \in RowsNamed(inv_name[i]) : ~(quantity[r] < ingredients[m][i])

\* updateItem(id, {is_available}): setting the flag to true is refused when
\* checkInventoryForItem fails; any other update is written as it is
updateMenuItem(m, avail) ==
  /\ m \in menu_rows
  /\ IF avail /\ ~checkInventoryForItem(m)
       THEN /\ UNCHANGED <<is_available, manual>>
            /\ lastOp' = NoOrderOp("updateMenuItem", FALSE)
       ELSE /\ is_available' = [is_available EXCEPT ![m] = avail]
            /\ manual' = [manual EXCEPT ![m] = TRUE]
            /\ lastOp' = NoOrderOp("updateMenuItem", TRUE)
  /\ UNCHANGED <<inv_rows, quantity, menu_rows, menu_item_inventory, orderTables, pages,
                 inFlight, price, inv_name, deductions>>

\* updateItem(id, {price}): UPDATE menu_items SET price = p, which the policy
\* "Admins have full access to menu items" lets an admin send; no trigger reads
\* the column
updateMenuItemPrice(m, p) ==
  /\ m \in menu_rows
  /\ price' = [price EXCEPT ![m] = p]
  /\ lastOp' = NoOrderOp("updateMenuItemPrice", TRUE)
  /\ UNCHANGED <<catalogue, inv_name, orderTables, pages, inFlight, deductions, manual>>

\* order_items.menu_item_id REFERENCES menu_items(id) without ON DELETE: a menu
\* item an order item names cannot be deleted
ReferencedByOrderItem(m) ==
  \E o \in OrderIds : \E k \in 1..Len(order_items[o]) : order_items[o][k].menu_item_id = m

\* deleteItem: DELETE FROM menu_items; ON DELETE CASCADE removes the item's mapping
\* rows, and each removed mapping row fires the mapping trigger
deleteMenuItem(m) ==
  /\ m \in menu_rows
  /\ ~ReferencedByOrderItem(m)
  /\ menu_rows' = menu_rows \ {m}
  /\ menu_item_inventory' = [menu_item_inventory EXCEPT ![m] = [i \in InvIds |-> 0]]
  /\ LET avail == [is_available EXCEPT ![m] = TRUE]
         man   == [manual EXCEPT ![m] = FALSE]
     IN  IF menu_item_inventory' # menu_item_inventory
           THEN /\ is_available' = update_menu_item_availability(
                                     menu_rows', avail, inv_rows, quantity,
                                     menu_item_inventory')
                /\ manual' = Recomputed(menu_rows', menu_item_inventory', man)
           ELSE /\ is_available' = avail
                /\ manual' = man
  /\ lastOp' = NoOrderOp("deleteMenuItem", TRUE)
  /\ UNCHANGED <<inv_rows, quantity, orderTables, pages, inFlight, price, inv_name, deductions>>

(***************************************************************************)
(* Initial states.                                                         *)
(***************************************************************************)
\* the recipe map the order specifications start from: every menu item uses stock
\* item 1 (one unit), and menu item m > 1 also uses stock item m (MaxReq units)
\* inventory_items.name is VARCHAR(255) NOT NULL with no UNIQUE constraint
ItemNames == {"flour", "cheese"}
\* the seed rows have different names
InitNames == [i \in InvIds |-> IF i = 1 THEN "flour" ELSE "cheese"]

InitRequired(m, i) ==
  IF <<m, i>> \notin MappingPairs THEN 0 ELSE IF i = 1 THEN 1 ELSE MaxReq
InitMapping == [m \in MenuIds |-> [i \in InvIds |-> InitRequired(m, i)]]

\* no status update in flight
NoTx == [pc |-> "idle", page |-> "none", steps |-> <<>>, qty |-> [i \in InvIds |-> 0],
         avail |-> [m \in MenuIds |-> TRUE], locks |-> {}, menuLock |-> FALSE,
         overlapped |-> FALSE]

\* the writers of status = completed on one order: the admin tab and two open
\* order-status pages
Writers == {"tabA", "page1", "page2"}

\* no completion in flight
NoWrite == [pc |-> "idle", role |-> "none", overlapped |-> FALSE]

\* no order yet; every stock row holds MaxQty; is_available as the mapping
\* triggers left it when the recipe map was loaded
Init ==
  /\ inv_rows = InvIds
  /\ quantity = [i \in InvIds |-> MaxQty]
  /\ menu_rows = MenuIds
  /\ menu_item_inventory = InitMapping
  /\ price = [m \in MenuIds |-> 1]
  /\ inv_name = InitNames
  /\ is_available = update_menu_item_availability(
                      MenuIds, [m \in MenuIds |-> TRUE], InvIds, quantity, InitMapping)
  /\ orders = [o \in OrderIds |-> NoOrder]
  /\ order_items = [o \in OrderIds |-> <<>>]
  /\ adminOrders = [p \in AdminPages |-> [o \in OrderIds |-> "none"]]
  /\ countdown = [o \in OrderIds |-> FALSE]
  /\ ingredients = InitMapping
  /\ tx = [o \in OrderIds |-> NoTx]
  /\ stock0 = quantity
  /\ writers = [w \in Writers |-> NoWrite]
  /\ deductions = [o \in OrderIds |-> 0]
  /\ manual = [m \in MenuIds |-> FALSE]
  /\ lastOp = NoOrderOp("none", FALSE)

\* item.price of the lines of a cart: none, or the price the menu page shows
ListedPrices == {PriceNull} \cup {price[m] : m \in menu_rows}

\* the customer reaches the API through the cart page, which sends a phone number
Next ==
  \/ /\ orders[1].status = "none"
     /\ \E items \in Requests, p \in ListedPrices : POST(1, items, p, "555-0100")
  \/ \E p \in AdminPages : fetchOrders(p)
  \/ \E p \in AdminPages, o \in OrderIds, prep \in PrepTimes : Approve(p, o, prep)
  \/ \E p \in AdminPages, o \in OrderIds : Decline(p, o)
  \/ \E p \in AdminPages, o \in OrderIds : MarkCompleted(p, o)
  \/ \E o \in OrderIds : fetchOrder(o)
  \/ \E o \in OrderIds, role \in Roles : calculateCountdown(o, role)
  \/ \E i \in InvIds, q \in QtyInputs : updateInventoryItem(i, q)

Spec == Init /\ [][Next]_vars

(***************************************************************************)
(* The catalogue on its own: stock rows, recipe map and menu items, with   *)
(* the admin pages and statements that write them; no order is placed.     *)
(***************************************************************************)
NextMenu ==
  \/ \E i \in InvIds, q \in QtyInputs : addInventoryItem(i, q)
  \/ \E i \in InvIds, q \in QtyInputs : updateInventoryItem(i, q)
  \/ \E i \in InvIds : deleteInventoryItem(i)
  \/ \E m \in MenuIds, i \in InvIds, r \in ReqInputs : insertMapping(m, i, r)
  \/ \E m \in MenuIds, i \in InvIds, r \in ReqInputs : updateMapping(m, i, r)
  \/ \E m \in MenuIds, i \in InvIds : deleteMapping(m, i)
  \/ checkAuth
  \/ \E m \in MenuIds, avail \in BOOLEAN : addMenuItem(m, avail)
  \/ \E m \in MenuIds, avail \in BOOLEAN : updateMenuItem(m, avail)
  \/ \E m \in MenuIds : deleteMenuItem(m)
  \/ \E role \in Roles : rpc_update_menu_item_availability(role)

SpecMenu == Init /\ [][NextMenu]_vars

(***************************************************************************)
(* check_menu_item_availability on its own: the function is called on any  *)
(* recipe map and any stock, a mapping row without its stock row included  *)
(* (the SELECT ... INTO then leaves current_quantity NULL).                *)
(***************************************************************************)
\* SELECT check_menu_item_availability(m), its result written to is_available as
\* update_menu_item_availability writes it
Evaluate(m) ==
  /\ is_available' = [is_available EXCEPT ![m] =
                        check_menu_item_availability(inv_rows, quantity,
                                                     menu_item_inventory, m)]
  /\ lastOp' = NoOrderOp("check_menu_item_availability", TRUE)
  /\ UNCHANGED <<inv_rows, quantity, menu_rows, menu_item_inventory, orderTables, pages,
                 inFlight, price, inv_name, deductions, manual>>

\* any stock rows with any quantity, any recipe map; is_available has its column
\* default
InitEval ==
  /\ inv_rows \in SUBSET InvIds
  /\ quantity \in [InvIds -> QtyInputs]
  /\ \A i \in InvIds \ inv_rows : quantity[i] = 0
  /\ menu_rows = MenuIds
  /\ menu_item_inventory \in [MenuIds -> [InvIds -> 0..MaxReq]]
  /\ price = [m \in MenuIds |-> 1]
  /\ inv_name = InitNames
  /\ is_available = [m \in MenuIds |-> TRUE]
  /\ orders = [o \in OrderIds |-> NoOrder]
  /\ order_items = [o \in OrderIds |-> <<>>]
  /\ adminOrders = [p \in AdminPages |-> [o \in OrderIds |-> "none"]]
  /\ countdown = [o \in OrderIds |-> FALSE]
  /\ ingredients = menu_item_inventory
  /\ tx = [o \in OrderIds |-> NoTx]
  /\ stock0 = quantity
  /\ writers = [w \in Writers |-> NoWrite]
  /\ deductions = [o \in OrderIds |-> 0]
  /\ manual = [m \in MenuIds |-> FALSE]
  /\ lastOp = NoOrderOp("none", FALSE)

NextEval == \E m \in MenuIds : Evaluate(m)

SpecEval == InitEval /\ [][NextEval]_vars

(***************************************************************************)
(* The order API on its own: any body reaches the route (a cart kept in    *)
(* localStorage, or a request sent without the cart page), while an admin  *)
(* changes the prices of the menu.                                         *)
(***************************************************************************)
\* as Init, with any stock the inventory page can have left
InitApi ==
  /\ inv_rows = InvIds
  /\ quantity \in [InvIds -> 0..MaxQty]
  /\ menu_rows = MenuIds
  /\ menu_item_inventory = InitMapping
  /\ price = [m \in MenuIds |-> 1]
  /\ inv_name = InitNames
  /\ is_available = update_menu_item_availability(
                      MenuIds, [m \in MenuIds |-> TRUE], InvIds, quantity, InitMapping)
  /\ orders = [o \in OrderIds |-> NoOrder]
  /\ order_items = [o \in OrderIds |-> <<>>]
  /\ adminOrders = [p \in AdminPages |-> [o \in OrderIds |-> "none"]]
  /\ countdown = [o \in OrderIds |-> FALSE]
  /\ ingredients = InitMapping
  /\ tx = [o \in OrderIds |-> NoTx]
  /\ stock0 = quantity
  /\ writers = [w \in Writers |-> NoWrite]
  /\ deductions = [o \in OrderIds |-> 0]
  /\ manual = [m \in MenuIds |-> FALSE]
  /\ lastOp = NoOrderOp("none", FALSE)

NextApi ==
  \/ /\ orders[1].status = "none"
     /\ \E items \in Carts, p \in PriceInputs, phone \in PhoneInputs :
           POST(1, items, p, phone)
  \/ \E m \in MenuIds, p \in Prices : updateMenuItemPrice(m, p)

SpecApi == InitApi /\ [][NextApi]_vars

(***************************************************************************)
(* The admin menu page beside the recipe form: the stock rows have any     *)
(* names the inventory form accepts, two rows of one name included.        *)
(***************************************************************************)
InitPage ==
  /\ inv_rows = InvIds
  /\ quantity \in [InvIds -> 0..MaxQty]
  /\ menu_rows = MenuIds
  /\ menu_item_inventory = InitMapping
  /\ price = [m \in MenuIds |-> 1]
  /\ inv_name \in [InvIds -> ItemNames]
  /\ is_available = update_menu_item_availability(
                      MenuIds, [m \in MenuIds |-> TRUE], InvIds, quantity, InitMapping)
  /\ orders = [o \in OrderIds |-> NoOrder]
  /\ order_items = [o \in OrderIds |-> <<>>]
  /\ adminOrders = [p \in AdminPages |-> [o \in OrderIds |-> "none"]]
  /\ countdown = [o \in OrderIds |-> FALSE]
  /\ ingredients = InitMapping
  /\ tx = [o \in OrderIds |-> NoTx]
  /\ stock0 = quantity
  /\ writers = [w \in Writers |-> NoWrite]
  /\ deductions = [o \in OrderIds |-> 0]
  /\ manual = [m \in MenuIds |-> FALSE]
  /\ lastOp = NoOrderOp("none", FALSE)

NextPage ==
  \/ checkAuth
  \/ \E m \in MenuIds, avail \in BOOLEAN : updateMenuItem(m, avail)
  \/ \E m \in MenuIds, i \in InvIds, r \in ReqInputs : insertMapping(m, i, r)
  \/ \E m \in MenuIds, i \in InvIds : deleteMapping(m, i)

SpecPage == InitPage /\ [][NextPage]_vars

(***************************************************************************)
(* One order from the cart to its end, with the stock left alone: the      *)
(* customer places it, one admin tab approves (with any number the dialog  *)
(* keeps), declines or completes it, the customer's status page counts     *)
(* down.  Nobody edits the inventory or the recipe map.                    *)
(***************************************************************************)
NextOrder ==
  \/ /\ orders[1].status = "none"
     /\ \E items \in Requests, p \in ListedPrices : POST(1, items, p, "555-0100")
  \/ fetchOrders("tabA")
  \/ \E o \in OrderIds, prep \in PrepInputs : Approve("tabA", o, prep)
  \/ \E o \in OrderIds : Decline("tabA", o)
  \/ \E o \in OrderIds : MarkCompleted("tabA", o)
  \/ \E o \in OrderIds : fetchOrder(o)
  \/ \E o \in OrderIds, role \in Roles : calculateCountdown(o, role)

SpecOrder == InitApi /\ [][NextOrder]_vars

(***************************************************************************)
(* Status updates in flight.  The UPDATE that Mark as Completed sends is   *)
(* its own READ COMMITTED transaction; here the row trigger of each runs   *)
(* one statement at a time, so that two of them interleave: one admin      *)
(* completes order 1 on tabA, another completes order 2 on tabB.  A statement *)
(* reads the committed rows and the rows its own transaction has written;  *)
(* a row a transaction has written stays locked until it commits, and a    *)
(* statement that needs a row locked by another transaction waits.         *)
(***************************************************************************)
\* the orders in which a loop can take the elements of S, each once
Perms(S) ==
  {f \in [1..Cardinality(S) -> S] : \A a, b \in 1..Cardinality(S) : f[a] = f[b] => a = b}

\* the (order item, mapping row) pairs the two loops of the trigger visit: the
\* order items in insertion order; the mapping rows of one item in any order (the
\* query has no ORDER BY)
RECURSIVE Plans(_, _)
Plans(mii, lines) ==
  IF lines = <<>> THEN {<<>>}
  ELSE {[k \in 1..Len(f) |-> [line |-> Head(lines), inv |-> f[k]]] \o rest :
          f \in Perms(MappingRows(mii, Head(lines).menu_item_id)),
          rest \in Plans(mii, Tail(lines))}

Running(o) == tx[o].pc \in {"lock", "trigger"}

\* what a statement of the transaction on order o reads
ViewQty(o) == [i \in InvIds |-> IF i \in tx[o].locks THEN tx[o].qty[i] ELSE quantity[i]]
ViewAvail(o) == IF tx[o].menuLock THEN tx[o].avail ELSE is_available
View(o) == [qty |-> ViewQty(o), avail |-> ViewAvail(o), clamped |-> {}]

\* row locks held by the other transactions: on a stock row, and on the menu
\* items update_menu_item_availability writes (every transaction writes the same
\* ones, in the same order, so the first of them stands for all)
LockedByOther(o, i) == \E o2 \in OrderIds \ {o} : i \in tx[o2].locks
MenuLockedByOther(o) == \E o2 \in OrderIds \ {o} : tx[o2].menuLock
WritesMenu == \E m \in menu_rows : HasMapping(menu_item_inventory, m)

\* the rows of a view that the transaction holds
Held(locks, qty) == [i \in InvIds |-> IF i \in locks THEN qty[i] ELSE 0]

\* Mark as Completed on a tab that shows the order as approved, the order not
\* being completed yet: the UPDATE locks the order row and its BEFORE trigger
\* starts
BeginCompletion(p, o) ==
  /\ adminOrders[p][o] = "approved"
  /\ tx[o].pc = "idle"
  /\ DeductionFires(orders[o].status, "completed")
  /\ \E plan \in Plans(menu_item_inventory, order_items[o]) :
        tx' = [o2 \in OrderIds |->
                 IF o2 = o
                   THEN [NoTx EXCEPT !.pc = "lock", !.page = p, !.steps = plan,
                                     !.overlapped = \E o3 \in OrderIds : Running(o3)]
                   ELSE IF Running(o2) THEN [tx[o2] EXCEPT !.overlapped = TRUE]
                   ELSE tx[o2]]
  /\ stock0' = IF \E o3 \in OrderIds : Running(o3) THEN stock0 ELSE quantity
  /\ lastOp' = NoOrderOp("statement", FALSE)
  /\ UNCHANGED <<catalogue, price, inv_name, orderTables, pages, writers, deductions, manual>>

\* UPDATE inventory_items SET quantity = quantity - ... WHERE id = ...: the
\* statement takes the lock of the stock row, waiting while another transaction
\* holds it
DeductStatement(o) ==
  /\ tx[o].pc = "lock" /\ tx[o].steps # <<>>
  /\ ~LockedByOther(o, Head(tx[o].steps).inv)
  /\ tx' = [tx EXCEPT ![o].pc = "trigger",
                      ![o].locks = @ \cup {Head(tx[o].steps).inv},
                      ![o].qty = Held(tx[o].locks \cup {Head(tx[o].steps).inv}, ViewQty(o))]
  /\ lastOp' = NoOrderOp("statement", FALSE)
  /\ UNCHANGED <<catalogue, price, inv_name, orderTables, pages, stock0, writers, deductions, manual>>

\* the rest of the iteration: the decrement, its AFTER UPDATE trigger (which
\* waits for the menu items another transaction has written), then the clamp
\* with its trigger.  order_item.quantity and quantity_required are never 0
\* here, so the decrement changes the row and the trigger fires
AvailabilityTrigger(o) ==
  /\ tx[o].pc = "trigger"
  /\ ~MenuLockedByOther(o)
  /\ LET st  == Head(tx[o].steps)
         db2 == DeductOne(View(o), menu_rows, inv_rows, menu_item_inventory,
                          st.line, st.inv)
     IN  tx' = [tx EXCEPT ![o].pc = "lock",
                          ![o].steps = Tail(@),
                          ![o].menuLock = TRUE,
                          ![o].qty = Held(tx[o].locks, db2.qty),
                          ![o].avail = db2.avail]
  /\ lastOp' = NoOrderOp("statement", FALSE)
  /\ UNCHANGED <<catalogue, price, inv_name, orderTables, pages, stock0, writers, deductions, manual>>

\* after the loops: PERFORM update_menu_item_availability(), the order row is
\* written and the transaction commits; the tab takes the new status
CommitCompletion(o) ==
  /\ tx[o].pc = "lock" /\ tx[o].steps = <<>>
  /\ WritesMenu => ~MenuLockedByOther(o)
  /\ quantity' = ViewQty(o)
  /\ is_available' = update_menu_item_availability(menu_rows, ViewAvail(o), inv_rows,
                                                   ViewQty(o), menu_item_inventory)
  /\ manual' = Recomputed(menu_rows, menu_item_inventory, manual)
  /\ orders' = [orders EXCEPT ![o] = NewOrderRow(@, "completed", PrepNull)]
  /\ deductions' = [deductions EXCEPT ![o] = Min(@ + 1, MaxDeductions)]
  /\ adminOrders' = [adminOrders EXCEPT ![tx[o].page][o] = "completed"]
  /\ tx' = [tx EXCEPT ![o] = [NoTx EXCEPT !.pc = "committed",
                                          !.overlapped = tx[o].overlapped]]
  /\ lastOp' = Op("updateOrderStatus", o, orders[o].status, "completed", TRUE, {})
  /\ UNCHANGED <<inv_rows, menu_rows, menu_item_inventory, price, inv_name, order_items, countdown,
                 ingredients, stock0, writers>>

\* the transaction on o waits for a lock the transaction on o2 holds
WaitsFor(o, o2) ==
  \/ /\ tx[o].pc = "lock" /\ tx[o].steps # <<>>
     /\ Head(tx[o].steps).inv \in tx[o2].locks
  \/ /\ tx[o].pc = "trigger" \/ (tx[o].pc = "lock" /\ tx[o].steps = <<>> /\ WritesMenu)
     /\ tx[o2].menuLock

\* deadlock: the database aborts one of two transactions that wait for each
\* other; its writes are rolled back and updateOrderStatus reports the error
DeadlockAbort(o) ==
  /\ \E o2 \in OrderIds \ {o} : WaitsFor(o, o2) /\ WaitsFor(o2, o)
  /\ tx' = [tx EXCEPT ![o] = NoTx]
  /\ lastOp' = Op("updateOrderStatus", o, orders[o].status, orders[o].status, FALSE, {})
  /\ UNCHANGED <<catalogue, price, inv_name, orderTables, pages, stock0, writers, deductions, manual>>

\* requests the order API accepts while every stock row holds MaxQty
AcceptedAtFullStock ==
  {items \in Requests :
     \A k \in 1..Len(items) :
        ValidLine(MenuIds, [m \in MenuIds |-> TRUE], InvIds, [i \in InvIds |-> MaxQty],
                  InitMapping, items[k])}

\* every order was accepted at full stock and approved; an admin has since set
\* every stock row to some quantity; both tabs show the orders as approved
InitTx ==
  /\ inv_rows = InvIds
  /\ \E q \in 0..MaxQty : quantity = [i \in InvIds |-> q]
  /\ menu_rows = MenuIds
  /\ menu_item_inventory = InitMapping
  /\ price = [m \in MenuIds |-> 1]
  /\ inv_name = InitNames
  /\ is_available = update_menu_item_availability(
                      MenuIds, [m \in MenuIds |-> TRUE], InvIds, quantity, InitMapping)
  /\ \E accepted \in [OrderIds -> AcceptedAtFullStock] :
        order_items = [o \in OrderIds |-> OrderItemRows(accepted[o], 1)]
  /\ orders = [o \in OrderIds |->
                 [NoOrder EXCEPT !.status = "approved", !.preparation_time = 30,
                                 !.phone_number = "555-0100"]]
  /\ adminOrders = [p \in AdminPages |-> [o \in OrderIds |-> "approved"]]
  /\ countdown = [o \in OrderIds |-> FALSE]
  /\ ingredients = InitMapping
  /\ tx = [o \in OrderIds |-> NoTx]
  /\ stock0 = quantity
  /\ writers = [w \in Writers |-> NoWrite]
  /\ deductions = [o \in OrderIds |-> 0]
  /\ manual = [m \in MenuIds |-> FALSE]
  /\ lastOp = NoOrderOp("none", FALSE)

NextTx ==
  \/ BeginCompletion("tabA", 1)
  \/ BeginCompletion("tabB", 2)
  \/ \E o \in OrderIds : DeductStatement(o)
  \/ \E o \in OrderIds : AvailabilityTrigger(o)
  \/ \E o \in OrderIds : CommitCompletion(o)
  \/ \E o \in OrderIds : DeadlockAbort(o)

SpecTx == InitTx /\ [][NextTx]_vars

(***************************************************************************)
(* Writers of one order.  The admin's Mark as Completed and the            *)
(* auto-complete of two open order-status pages send the same statement,   *)
(* UPDATE orders SET status = 'completed' WHERE id = o, each in its own     *)
(* READ COMMITTED transaction.  The statement first takes the lock of the  *)
(* order row, waiting while another transaction holds it; when it has the  *)
(* lock it reads the row as the last commit left it, and the BEFORE UPDATE *)
(* row trigger gets that version as OLD.  Everything the trigger does      *)
(* happens under that lock.                                                *)
(***************************************************************************)
WriterRoles(w) == IF w = "tabA" THEN {"authenticated"} ELSE Roles

InFlightWrite(w) == writers[w].pc \in {"sent", "locked"}

\* the page of writer w shows the order as approved and sends the update: the
\* Mark as Completed button, or calculateCountdown with diff <= 0
SendCompletion(w, o) ==
  /\ writers[w].pc = "idle"
  /\ IF w = "tabA" THEN adminOrders[w][o] = "approved" ELSE countdown[o]
  /\ \E role \in WriterRoles(w) :
        writers' = [w2 \in Writers |->
                      IF w2 = w
                        THEN [pc |-> "sent", role |-> role,
                              overlapped |-> \E w3 \in Writers : InFlightWrite(w3)]
                        ELSE IF InFlightWrite(w2)
                               THEN [writers[w2] EXCEPT !.overlapped = TRUE]
                               ELSE writers[w2]]
  /\ lastOp' = NoOrderOp("statement", FALSE)
  /\ UNCHANGED <<catalogue, price, inv_name, orderTables, pages, tx, stock0, deductions, manual>>

\* the statement reaches the table.  Row level security hides the row from a
\* role that is not authenticated: the statement matches no row and ends with no
\* error.  Otherwise it takes the lock of the order row, once no other
\* transaction holds it
LockOrderRow(w, o) ==
  /\ writers[w].pc = "sent"
  /\ IF CanUpdateOrders(writers[w].role)
       THEN /\ \A w2 \in Writers : writers[w2].pc # "locked"
            /\ writers' = [writers EXCEPT ![w].pc = "locked"]
       ELSE writers' = [writers EXCEPT ![w].pc = "done"]
  /\ lastOp' = IF CanUpdateOrders(writers[w].role)
                 THEN NoOrderOp("statement", FALSE)
                 ELSE [Op("calculateCountdown", o, orders[o].status, orders[o].status,
                          FALSE, {}) EXCEPT !.role = writers[w].role]
  /\ UNCHANGED <<catalogue, price, inv_name, orderTables, pages, tx, stock0, deductions, manual>>

\* the row triggers run on the row as the lock found it (no other transaction
\* has written it since), the row is written and the transaction commits; the
\* admin tab takes the new status, a status page fetches the order again
CommitWrite(w, o) ==
  /\ writers[w].pc = "locked"
  /\ UpdateOrders(writers[w].role, o, "completed", PrepNull)
  /\ writers' = [writers EXCEPT ![w].pc = "done"]
  /\ IF w = "tabA"
       THEN /\ adminOrders' = [adminOrders EXCEPT ![w][o] = "completed"]
            /\ UNCHANGED countdown
       ELSE /\ countdown' = [countdown EXCEPT ![o] = CountdownRuns(orders'[o])]
            /\ UNCHANGED adminOrders
  /\ lastOp' = [Op(IF w = "tabA" THEN "updateOrderStatus" ELSE "calculateCountdown",
                    o, orders[o].status, "completed", TRUE,
                    Deducted(o, "completed").clamped)
                   EXCEPT !.role = writers[w].role]
  /\ UNCHANGED <<inv_rows, menu_rows, menu_item_inventory, price, inv_name, order_items,
                 ingredients, tx, stock0>>

\* order 1 was accepted at full stock and approved, and no deduction has been
\* made for it; the admin tab and the status pages show it as approved
InitRace ==
  /\ inv_rows = InvIds
  /\ \E q \in 0..MaxQty : quantity = [i \in InvIds |-> q]
  /\ menu_rows = MenuIds
  /\ menu_item_inventory = InitMapping
  /\ price = [m \in MenuIds |-> 1]
  /\ inv_name = InitNames
  /\ is_available = update_menu_item_availability(
                      MenuIds, [m \in MenuIds |-> TRUE], InvIds, quantity, InitMapping)
  /\ \E accepted \in AcceptedAtFullStock :
        order_items = [o \in OrderIds |->
                         IF o = 1 THEN OrderItemRows(accepted, 1) ELSE <<>>]
  /\ orders = [o \in OrderIds |->
                 IF o = 1 THEN [NoOrder EXCEPT !.status = "approved",
                                               !.preparation_time = 30,
                                               !.phone_number = "555-0100"]
                          ELSE NoOrder]
  /\ adminOrders = [p \in AdminPages |->
                      [o \in OrderIds |-> IF o = 1 THEN "approved" ELSE "none"]]
  /\ countdown = [o \in OrderIds |-> o = 1]
  /\ ingredients = InitMapping
  /\ tx = [o \in OrderIds |-> NoTx]
  /\ stock0 = quantity
  /\ writers = [w \in Writers |-> NoWrite]
  /\ deductions = [o \in OrderIds |-> 0]
  /\ manual = [m \in MenuIds |-> FALSE]
  /\ lastOp = NoOrderOp("none", FALSE)

NextRace ==
  \/ \E w \in Writers : SendCompletion(w, 1)
  \/ \E w \in Writers : LockOrderRow(w, 1)
  \/ \E w \in Writers : CommitWrite(w, 1)

SpecRace == InitRace /\ [][NextRace]_vars

(***************************************************************************)
(* Properties.                                                             *)
(***************************************************************************)
\* the Availability Evaluator as the specification words it: a menu item is
\* available iff each of its requirements finds current stock >= quantity_required
\* (a requirement with no stock row is not met); no requirement: available
AvailabilityEvaluator(m) ==
  \A i \in InvIds :
     menu_item_inventory[m][i] > 0 =>
        /\ i \in inv_rows
        /\ quantity[i] >= menu_item_inventory[m][i]

RequiresStock(m) == \E i \in InvIds : menu_item_inventory[m][i] > 0

\* the step writes completed over another status of order o
CompletesOrder(o) ==
  /\ orders[o].status \notin {"none", "completed"}
  /\ orders'[o].status = "completed"

\* the last operation wrote completed over another status
CompletionJustDone ==
  /\ lastOp.wrote
  /\ lastOp.new = "completed"
  /\ lastOp.old \notin {"none", "completed"}

\* C1: over any sequence of status writes, the deduction of an order is applied
\* at most once in the order's lifetime
C1_DeductionAtMostOnce == \A o \in OrderIds : deductions[o] <= 1

\* the changes of Order.status the state machine allows (and the creation of the row)
ValidTransitions ==
  {<<"none", "pending">>, <<"pending", "approved">>, <<"pending", "declined">>,
   <<"pending", "completed">>, <<"approved", "completed">>}

\* C2: every change of an order's status is pending->approved, pending->declined,
\* pending->completed or approved->completed; a completed or declined order never
\* changes status again
C2_OnlyValidTransitions ==
  [][\A o \in OrderIds :
        orders'[o].status # orders[o].status =>
           <<orders[o].status, orders'[o].status>> \in ValidTransitions]_vars

\* C3: in every reachable state every inventory item's quantity is >= 0
C3_QuantityNonNegative == \A i \in inv_rows : quantity[i] >= 0

\* sum over the lines of orderItem.quantity * quantity_required on stock row i
RECURSIVE Demand(_, _)
Demand(lines, i) ==
  IF lines = <<>> THEN 0
  ELSE Head(lines).quantity * menu_item_inventory[Head(lines).menu_item_id][i]
         + Demand(Tail(lines), i)

\* stock row i is named by a requirement of one of the lines
Referenced(lines, i) ==
  \E k \in 1..Len(lines) : menu_item_inventory[lines[k].menu_item_id][i] > 0

\* C4: when an order transitions into completed, every inventory item ends with
\* max(0, q - sum of orderItem.quantity * quantity_required), q its quantity
\* before; items no requirement of the order's items names are unchanged
C4_ClampedTotal ==
  [][\A o \in OrderIds :
        CompletesOrder(o) =>
           \A i \in inv_rows :
              quantity'[i] = IF Referenced(order_items[o], i)
                               THEN Max(0, quantity[i] - Demand(order_items[o], i))
                               ELSE quantity[i]]_vars

\* C5: writing status = completed to an order that is already completed leaves
\* every inventory quantity and every is_available flag as they were
C5_RecompletionChangesNothing ==
  [][\A o \in OrderIds :
        (/\ orders[o].status = "completed"
         /\ lastOp'.order = o /\ lastOp'.wrote /\ lastOp'.new = "completed")
        => (quantity' = quantity /\ is_available' = is_available)]_vars

\* a completed order has just been written completed again, and its deduction had
\* taken stock
C5_Witness ==
  /\ lastOp.wrote /\ lastOp.old = "completed" /\ lastOp.new = "completed"
  /\ \E i \in inv_rows : Referenced(order_items[lastOp.order], i) /\ quantity[i] > 0
  /\ deductions[lastOp.order] = 1

\* C6: in every state a reader can observe, an order has status completed if and
\* only if its decrement, clamp and availability recompute have been applied
C6_CompletedIffDeducted ==
  \A o \in OrderIds : (orders[o].status = "completed") <=> (deductions[o] >= 1)

FlagsMatchEvaluator ==
  \A m \in menu_rows : RequiresStock(m) => is_available[m] = AvailabilityEvaluator(m)

InventoryMutations == {"addInventoryItem", "updateInventoryItem", "deleteInventoryItem"}
MappingMutations == {"insertMapping", "updateMapping", "deleteMapping"}

\* C8 as stated: immediately after any inventory mutation (insert, quantity
\* update, delete) or recipe-mapping mutation (insert, update, delete), every menu
\* item with a recipe requirement has is_available equal to the Evaluator's result
C8_AfterAnyMutation ==
  [][lastOp'.op \in InventoryMutations \cup MappingMutations
       => FlagsMatchEvaluator']_vars

\* C8: immediately after an inventory insert, an inventory update that changes
\* the quantity, an inventory delete that removes a recipe mapping, or a recipe
\* mapping insert, update or delete, every menu item with a recipe requirement
\* has is_available equal to the Evaluator's result
C8_AfterRecomputingMutation ==
  [][(\/ lastOp'.op = "addInventoryItem"
      \/ lastOp'.op = "updateInventoryItem" /\ quantity' # quantity
      \/ lastOp'.op = "deleteInventoryItem" /\ menu_item_inventory' # menu_item_inventory
      \/ lastOp'.op \in MappingMutations)
       => FlagsMatchEvaluator']_vars

\* a quantity update has just made a menu item unavailable
C8_Witness ==
  /\ lastOp.op = "updateInventoryItem"
  /\ \E m \in menu_rows :
        RequiresStock(m) /\ ~AvailabilityEvaluator(m) /\ ~is_available[m] /\ ~manual[m]

\* C9 as stated: in every reachable state, states reached by admin edits of
\* is_available included, every menu item with a recipe requirement has
\* is_available equal to the Evaluator's result
C9_AlwaysMatchesEvaluator ==
  \A m \in menu_rows : RequiresStock(m) => (is_available[m] <=> AvailabilityEvaluator(m))

\* C9: in every reachable state, every menu item with a recipe requirement whose
\* is_available was not written by the admin menu page since the last write-back
\* of the Evaluator has is_available equal to the Evaluator's result
C9_MatchesUnlessEdited ==
  \A m \in menu_rows :
     (RequiresStock(m) /\ ~manual[m]) => is_available[m] = AvailabilityEvaluator(m)

\* an admin has just edited the flag of one menu item while another, not edited,
\* is unavailable for lack of stock
C9_Witness ==
  /\ lastOp.op = "updateMenuItem" /\ lastOp.wrote
  /\ \E m \in menu_rows : manual[m] /\ RequiresStock(m)
  /\ \E m \in menu_rows : RequiresStock(m) /\ ~manual[m] /\ ~is_available[m]

\* C7: two different orders whose recipes share an inventory item, completed
\* concurrently, leave that item at max(0, q - d1 - d2), q its quantity before
\* and d1, d2 the orders' deductions on it, under every interleaving
C7_ConcurrentTotal ==
  \A o1, o2 \in OrderIds :
     (/\ o1 < o2
      /\ tx[o1].pc = "committed" /\ tx[o1].overlapped
      /\ tx[o2].pc = "committed" /\ tx[o2].overlapped)
     => \A i \in inv_rows :
           (Referenced(order_items[o1], i) /\ Referenced(order_items[o2], i))
           => quantity[i] = Max(0, stock0[i] - Demand(order_items[o1], i)
                                             - Demand(order_items[o2], i))

(***************************************************************************)
(* The order API.                                                          *)
(***************************************************************************)
\* the checks of the Order Validation Gate on one line, as the specification
\* words them
ItemExists(line) == line.menu_item_id \in menu_rows
ItemAvailable(line) == is_available[line.menu_item_id]
EnoughStock(line) ==
  \A i \in InvIds :
     menu_item_inventory[line.menu_item_id][i] > 0 =>
        quantity[i] >= menu_item_inventory[line.menu_item_id][i] * line.quantity
GateAccepts(items) ==
  \A k \in 1..Len(items) :
     ItemExists(items[k]) /\ ItemAvailable(items[k]) /\ EnoughStock(items[k])

\* the error responses of the checks
ValidationErrors == {"not found", "unavailable", "Insufficient inventory"}

\* C11: createOrder succeeds only if every line names a menu item that exists and
\* is available and every recipe requirement of it finds stock >=
\* quantity_required * line.quantity; a request is rejected only on a line that
\* fails one of the three checks, so stock equal to the need is accepted, and
\* the insufficient-inventory error is returned exactly for a line whose item
\* exists and is available and finds less stock
C11_SucceedsOnlyWithEnoughStock ==
  [][(lastOp'.op = "POST" /\ orders[1].status = "none") =>
        /\ lastOp'.failed = "none" => GateAccepts(order_items'[lastOp'.order])
        /\ lastOp'.failed \in ValidationErrors =>
              /\ (lastOp'.failed = "not found") <=> ~ItemExists(lastOp'.item)
              /\ (lastOp'.failed = "unavailable") <=>
                    (ItemExists(lastOp'.item) /\ ~ItemAvailable(lastOp'.item))
              /\ (lastOp'.failed = "Insufficient inventory") <=>
                    (/\ ItemExists(lastOp'.item) /\ ItemAvailable(lastOp'.item)
                     /\ ~EnoughStock(lastOp'.item))]_vars

\* an order has just been accepted with a line that needs exactly the stock there is
C11_Witness ==
  /\ lastOp.op = "POST" /\ lastOp.failed = "none"
  /\ \E k \in 1..Len(order_items[lastOp.order]) : \E i \in inv_rows :
        LET line == order_items[lastOp.order][k]
        IN  /\ menu_item_inventory[line.menu_item_id][i] > 0
            /\ quantity[i] = menu_item_inventory[line.menu_item_id][i] * line.quantity

\* C12: when createOrder fails validation on a line, no Order row and no
\* OrderItem row is stored for the request, also when earlier lines passed
C12_RejectedStoresNothing ==
  [][(lastOp'.op = "POST" /\ lastOp'.failed \in ValidationErrors)
       => (orders' = orders /\ order_items' = order_items)]_vars

\* a request has just been rejected on its second line, the first having passed
C12_Witness ==
  /\ lastOp.op = "POST" /\ lastOp.failed \in ValidationErrors /\ lastOp.line = 2
  /\ \A o \in OrderIds : orders[o].status = "none" /\ order_items[o] = <<>>

\* C13: createOrder stores the Order row and its OrderItem rows atomically: no
\* order exists without its items
C13_NoOrderWithoutItems ==
  \A o \in OrderIds : orders[o].status # "none" => order_items[o] # <<>>

\* C14: createOrder, whether it succeeds or fails, leaves every inventory
\* quantity and every is_available flag as they were; stock goes down only when
\* an order changes to completed (or an admin edits the stock row)
C14_PlacementLeavesStock ==
  [][/\ lastOp'.op = "POST" => (quantity' = quantity /\ is_available' = is_available)
     /\ (\E i \in InvIds : quantity'[i] < quantity[i])
          => \/ lastOp'.op = "updateInventoryItem"
             \/ \E o \in OrderIds : CompletesOrder(o)]_vars

\* an order that needs stock has just been placed and every stock row is full
C14_Witness ==
  /\ lastOp.op = "POST" /\ lastOp.wrote /\ lastOp.failed = "none"
  /\ orders[lastOp.order].status = "pending"
  /\ \E i \in inv_rows : Demand(order_items[lastOp.order], i) > 0
  /\ \A i \in inv_rows : quantity[i] = MaxQty

\* the error responses about the body of the request
ValidationInputErrors == {"Cart is empty"}

\* C21: createOrder rejects a request that has no phone number or an empty item
\* list with a validation-input error, and no Order or OrderItem row is persisted
\* for it
\* (a request that also has a line the gate refuses may be rejected for that line)
C21_RejectsMissingPhoneOrEmptyCart ==
  [][(/\ lastOp'.op = "POST" /\ orders[1].status = "none"
      /\ lastOp'.phone = PhoneNull \/ lastOp'.size = 0)
       => /\ lastOp'.failed \in ValidationInputErrors \cup ValidationErrors
          /\ lastOp'.size = 0 => lastOp'.failed \in ValidationInputErrors
          /\ orders' = orders /\ order_items' = order_items]_vars

\* C24: every persisted OrderItem's price equals the price of its MenuItem at the
\* moment the order was created, also when an admin changed the menu item's price
\* after the customer put the item in the cart; later price changes never alter
\* a persisted OrderItem's price
C24_PriceSnapshot ==
  [][\A o \in OrderIds :
        /\ order_items[o] = <<>> =>
              \A k \in 1..Len(order_items'[o]) :
                 order_items'[o][k].price = price[order_items'[o][k].menu_item_id]
        /\ order_items[o] # <<>> => order_items'[o] = order_items[o]]_vars

(***************************************************************************)
(* The status buttons and the countdown.                                   *)
(***************************************************************************)
\* C15: approve and decline take effect only on an order whose stored status is
\* pending; a decline sent after approve(order, n) leaves the order approved with
\* preparation_time n
C15_ApproveDeclineOnlyFromPending ==
  [][\A o \in OrderIds :
        (/\ lastOp'.op = "updateOrderStatus" /\ lastOp'.order = o
         /\ lastOp'.new \in {"approved", "declined"}
         /\ orders[o].status # "pending")
        => orders'[o] = orders[o]]_vars

\* C22: an order's updated_at always equals the time of that order's last status
\* change: a write to the order that does not change its status (a repeated
\* approve, a repeated complete from a polling client) leaves updated_at, and so
\* the ready time updated_at + preparation_time, unchanged
C22_UpdatedAtIsLastStatusChange ==
  \A o \in OrderIds : orders[o].status # "none" => orders[o].updated_at = AtStatusChange

\* the step is an approve of order o that reached the row
ApproveStep(o) ==
  /\ lastOp'.op = "updateOrderStatus" /\ lastOp'.order = o /\ lastOp'.new = "approved"
  /\ orders'[o].status = "approved"

\* C23: after approve, the order's stored preparation_time is a positive integer
\* (the value given by the admin, or 30 when none is given); preparation_time is
\* null for every order that has never been approved: it is null when the row is
\* inserted and only an approve writes it
C23_PreparationTimePositive ==
  [][\A o \in OrderIds :
        /\ ApproveStep(o) => orders'[o].preparation_time > 0
        /\ orders[o].status = "none" => orders'[o].preparation_time = PrepNull
        /\ orders'[o].preparation_time # orders[o].preparation_time => ApproveStep(o)]_vars

\* C25: when two writers set status = completed on the same order concurrently
\* (the admin's Mark as Completed and a customer page's auto-complete, or two
\* open customer pages), the order's inventory deduction is applied exactly once
\* under every interleaving
C25_ConcurrentCompletionOnce ==
  (/\ \A w \in Writers : ~InFlightWrite(w)
   /\ \E w1, w2 \in Writers :
         /\ w1 # w2
         /\ writers[w1].pc = "done" /\ writers[w1].overlapped
         /\ writers[w2].pc = "done" /\ writers[w2].overlapped)
  => deductions[1] = 1

\* C26 as stated: an order accepted by createOrder, if completed with no other
\* inventory change in between, never needs the clamp: for every inventory item
\* the order's total deduction, summed over all its lines, is <= the stock that
\* was present at validation time
C26_NeverNeedsClamp ==
  [][\A o \in OrderIds :
        (CompletesOrder(o) /\ deductions[o] = 0) =>
           /\ lastOp'.clamped = {}
           /\ \A i \in inv_rows : Demand(order_items[o], i) <= quantity[i]]_vars

\* C26: an order accepted by createOrder, if completed with no other inventory or
\* recipe change in between, never needs the clamp for one line and one recipe
\* requirement taken alone: for every line and every requirement of the line's
\* menu item, quantity_required * line.quantity is <= the stock of that inventory
\* item that was present at validation time (the stock is the same at the
\* completion: no step of this specification writes it in between)
C26_EachRequirementWithinStock ==
  [][\A o \in OrderIds :
        (CompletesOrder(o) /\ deductions[o] = 0) =>
           \A k \in 1..Len(order_items[o]) : \A i \in InvIds :
              menu_item_inventory[order_items[o][k].menu_item_id][i] > 0 =>
                 menu_item_inventory[order_items[o][k].menu_item_id][i]
                    * order_items[o][k].quantity <= quantity[i]]_vars

\* an order of two lines has just been completed, and the deductions of its
\* lines together needed the clamp
C26_Witness ==
  /\ CompletionJustDone /\ lastOp.clamped # {}
  /\ deductions[lastOp.order] = 1
  /\ Len(order_items[lastOp.order]) = 2
  /\ \A k \in 1..2 : order_items[lastOp.order][k].quantity > 0

\* C27: completing an order never increases any inventory item's quantity: for
\* every order that createOrder can persist, each inventory quantity after the
\* completion is <= its quantity before
C27_CompletionNeverIncreases ==
  [][\A o \in OrderIds :
        CompletesOrder(o) => \A i \in inv_rows : quantity'[i] <= quantity[i]]_vars

\* C28: an order that has ever had status declined never causes an inventory
\* deduction, whatever status writes admins and customer pages (pages holding a
\* stale approved view included) issue afterwards; in particular the write that
\* finds the order declined deducts nothing
C28_DeclinedNeverDeducts ==
  [][\A o \in OrderIds :
        orders[o].status = "declined" => deductions'[o] = deductions[o]]_vars

\* C29: a caller without the authenticated role can never change an existing
\* order's status, any inventory quantity or any menu item's is_available: its
\* only possible writes are inserting orders and order items, and no sequence of
\* them triggers a deduction
C29_AnonChangesNothing ==
  [][lastOp'.role # "authenticated" =>
        /\ \A o \in OrderIds :
              orders[o].status # "none" => orders'[o].status = orders[o].status
        /\ quantity' = quantity
        /\ is_available' = is_available
        /\ deductions' = deductions]_vars

\* C30: for every menu item and every database state, the admin menu page's own
\* sufficiency check (ingredient list of the page state, stock looked up by
\* name) gives the same answer as check_menu_item_availability (mappings and
\* stock looked up by id), also after the recipe mappings changed between two
\* polls and when two inventory items share a name
C30_PageCheckMatchesEvaluator ==
  \A m \in menu_rows :
     checkInventoryForItem(m)
       = check_menu_item_availability(inv_rows, quantity, menu_item_inventory, m)

\* C20: when the countdown of an approved order has elapsed on an open
\* order-status page and the page has sent its complete transition, the order is
\* completed and its deduction applied
C20_ElapsedCountdownCompletes ==
  [][lastOp'.op = "calculateCountdown"
       => /\ orders'[lastOp'.order].status = "completed"
          /\ deductions'[lastOp'.order] >= 1]_vars

(***************************************************************************)
(* The Evaluator and the flags of the menu.                                *)
(***************************************************************************)
\* C16: the Evaluator returns true for a menu item iff the item has no recipe
\* requirement or each requirement finds stock >= quantity_required, taken for
\* one unit; a requirement whose stock row is missing is not met
C16_EvaluatorResult ==
  [][\A m \in MenuIds :
        Evaluate(m) => (is_available'[m] <=> AvailabilityEvaluator(m))]_vars

\* the function has just returned false for an item with a requirement whose
\* stock row is missing, and true for an item whose stock equals the requirement
C16_Witness ==
  /\ lastOp.op = "check_menu_item_availability"
  /\ \E m \in MenuIds : \E i \in InvIds \ inv_rows :
        menu_item_inventory[m][i] > 0 /\ ~is_available[m]
  /\ \E m \in MenuIds :
        /\ RequiresStock(m) /\ AvailabilityEvaluator(m) /\ is_available[m]
        /\ \E i \in inv_rows :
              menu_item_inventory[m][i] > 0 /\ quantity[i] = menu_item_inventory[m][i]

\* requirement (m, i) finds less stock than it needs
Short(m, i) ==
  menu_item_inventory[m][i] > 0 /\ (i \notin inv_rows \/ quantity[i] < menu_item_inventory[m][i])

\* C17: deleting a recipe requirement of a menu item that was unavailable for
\* lack of that ingredient makes the item available in the same step when all the
\* remaining requirements are met, also when it was the item's only requirement
C17_DeletionMakesAvailable ==
  [][\A m \in menu_rows : \A i \in InvIds :
        (/\ lastOp'.op = "deleteMapping"
         /\ menu_item_inventory[m][i] > 0 /\ menu_item_inventory'[m][i] = 0
         /\ ~is_available[m] /\ Short(m, i)
         /\ \A j \in InvIds \ {i} : ~Short(m, j))
        => is_available'[m]]_vars

\* C18: in every reachable state every menu item with no recipe requirement has
\* is_available = true
C18_UnmappedAlwaysAvailable ==
  \A m \in menu_rows : ~RequiresStock(m) => is_available[m]

\* C19: an admin write that sets is_available of a menu item to true is refused
\* and leaves the flag as it was when a recipe requirement of the item finds
\* less stock than quantity_required
C19_InsufficientToggleRefused ==
  [][\A m \in menu_rows :
        (/\ lastOp'.op = "updateMenuItem"
         /\ \E i \in InvIds : Short(m, i)
         /\ ~is_available[m])
        => ~is_available'[m]]_vars

====
